---- MODULE Spec2Model ----
(***************************************************************************)
(* Model of src/server.py: the loan-notification endpoint of the library   *)
(* widget server.  It covers the sliding-window rate limiter               *)
(* (check_rate_limit), the request validator (validate_loan_request), the  *)
(* notification dispatcher (send_loan_notification, get_auth_token) and    *)
(* the HTTP handler (MyHTTPRequestHandler.do_OPTIONS / do_POST) run by a   *)
(* socketserver.TCPServer, which handles one connection at a time.         *)
(*                                                                         *)
(* Text is a sequence of one-character strings.  A JSON value is a record  *)
(* [t, s, n]: t is the Python type, s the characters (str) or the elements *)
(* (list), n the number (int).                                             *)
(***************************************************************************)
EXTENDS Integers, Sequences, FiniteSets, TLC

VARIABLES clock, rate_limit_tracker, env, backlog, pc, local,
          admissions,   \* history: per client, the times of its last admitted requests
          relay_calls   \* history: the number of requests.post calls made

vars == <<clock, rate_limit_tracker, env, backlog, pc, local, admissions, relay_calls>>

(***************************************************************************)
(* Program constants                                                       *)
(***************************************************************************)
RATE_LIMIT_WINDOW == 300

RATE_LIMIT_MAX_REQUESTS == 3

MAX_CONTENT_LENGTH == 10000

MAX_TITLE_LENGTH == 255

MAX_AUTHOR_LENGTH == 100

MAX_NAME_LENGTH == 100

API_PATH == "/api/loan-notification"

required_fields == <<"book_title", "book_author", "borrower_name", "borrower_email">>

text_fields == <<"book_title", "book_author", "borrower_name">>

(***************************************************************************)
(* Bounds of the model                                                     *)
(***************************************************************************)
MaxClock == 302

MaxBacklog == 1

NumHandlers == 2

Clients == {"10.0.0.1", "10.0.0.2"}

Handlers == 1..NumHandlers

TickSteps == {150, 151}

\* connections are taken while fewer calls of the relay than this were made
MaxRelayCalls == 2

(***************************************************************************)
(* Characters and text                                                     *)
(***************************************************************************)
Letters ==
    {"a","b","c","d","e","f","g","h","i","j","k","l","m",
     "n","o","p","q","r","s","t","u","v","w","x","y","z",
     "A","B","C","D","E","F","G","H","I","J","K","L","M",
     "N","O","P","Q","R","S","T","U","V","W","X","Y","Z"}

Digits == {"0","1","2","3","4","5","6","7","8","9"}

UnsafeChars == {"<", ">", "\"", "'"}

\* the characters str.strip() removes (str.isspace), a character with no
\* escape of its own being written by its code point
Whitespace ==
    {" ", "\t", "\n", "\r", "\f", "U+000B",
     "U+001C", "U+001D", "U+001E", "U+001F", "U+0085", "U+00A0", "U+1680",
     "U+2000", "U+2001", "U+2002", "U+2003", "U+2004", "U+2005", "U+2006",
     "U+2007", "U+2008", "U+2009", "U+200A", "U+2028", "U+2029", "U+202F",
     "U+205F", "U+3000"}

LocalChars == Letters \cup Digits \cup {".", "_", "%", "+", "-"}

DomainChars == Letters \cup Digits \cup {".", "-"}

Rep(c, n) == [i \in 1..n |-> c]

SetMin(S) == CHOOSE x \in S : \A y \in S : x <= y

SetMax(S) == CHOOSE x \in S : \A y \in S : x >= y

AllIn(s, lo, hi, C) == \A i \in lo..hi : s[i] \in C

\* re.sub(r'[<>"\']', '', s)
RemoveUnsafe(s) ==
    LET keep(c) == c \notin UnsafeChars IN SelectSeq(s, keep)

\* str.strip()
Strip(s) ==
    LET idx == {i \in 1..Len(s) : s[i] \notin Whitespace}
    IN  IF idx = {} THEN <<>> ELSE SubSeq(s, SetMin(idx), SetMax(idx))

\* Sanitize without the final strip()
SanitizeNoStrip(s) == RemoveUnsafe(s)

\* re.sub(r'[<>"\']', '', data[field]).strip()
Sanitize(s) == Strip(RemoveUnsafe(s))

\* re.match(r'^[a-zA-Z0-9._%+-]+@[a-zA-Z0-9.-]+\.[a-zA-Z]{2,}$', s):
\* some '@' at i and some '.' at j split s into local part, domain and TLD;
\* '$' also matches just before one trailing newline.
EmailMatchesUpTo(s, n) ==
    \E i \in 2..n : \E j \in (i + 2)..(n - 2) :
        /\ s[i] = "@"
        /\ s[j] = "."
        /\ AllIn(s, 1, i - 1, LocalChars)
        /\ AllIn(s, i + 1, j - 1, DomainChars)
        /\ AllIn(s, j + 1, n, Letters)

EmailMatches(s) ==
    \/ EmailMatchesUpTo(s, Len(s))
    \/ /\ Len(s) > 0
       /\ s[Len(s)] = "\n"
       /\ EmailMatchesUpTo(s, Len(s) - 1)

(***************************************************************************)
(* JSON values as json.loads returns them                                  *)
(***************************************************************************)
Str(s) == [t |-> "str", s |-> s, n |-> 0]

Num(n) == [t |-> "int", s |-> <<>>, n |-> n]

Null == [t |-> "null", s |-> <<>>, n |-> 0]

List(s) == [t |-> "list", s |-> s, n |-> 0]

\* the key is not in the dict
Absent == [t |-> "absent", s |-> <<>>, n |-> 0]

\* bool(v)
Truthy(v) ==
    CASE v.t = "str" -> v.s # <<>>
      [] v.t = "list" -> v.s # <<>>
      [] v.t = "int" -> v.n # 0
      [] OTHER -> FALSE

\* len(v) is defined
HasLen(v) == v.t \in {"str", "list"}

FieldSet == {required_fields[i] : i \in 1..Len(required_fields)}

Dict(title, author, name, email) ==
    [t |-> "dict",
     f |-> [k \in FieldSet |->
              CASE k = "book_title" -> title
                [] k = "book_author" -> author
                [] k = "borrower_name" -> name
                [] k = "borrower_email" -> email]]

\* a top-level JSON value that is not an object: "list" (an array of
\* numbers), "int" or "null"
NonDict(t) == [t |-> t, f |-> [k \in FieldSet |-> Absent]]

(***************************************************************************)
(* validate_loan_request                                                   *)
(***************************************************************************)
MissingMessage(field) ==
    CASE field = "book_title" -> "Missing required field: book_title"
      [] field = "book_author" -> "Missing required field: book_author"
      [] field = "borrower_name" -> "Missing required field: borrower_name"
      [] field = "borrower_email" -> "Missing required field: borrower_email"

\* the value returned (exc = "") or the exception raised, and data as the
\* call leaves it
Returned(ok, msg, data) == [exc |-> "", ok |-> ok, msg |-> msg, data |-> data]

Raised(exc, data) == [exc |-> exc, ok |-> FALSE, msg |-> exc, data |-> data]

\* field not in data or not data[field]
FieldMissing(data, field) ==
    \/ data.t = "list"
    \/ data.f[field] = Absent
    \/ ~Truthy(data.f[field])

\* the first iteration of the required-fields loop that returns
FirstMissing(data, fields) ==
    LET bad == {i \in 1..Len(fields) : FieldMissing(data, fields[i])}
    IN  IF bad = {} THEN 0 ELSE SetMin(bad)

\* the length limit applied to the sanitized text
TooLongSanitized(v, limit) == Len(Sanitize(v.s)) > limit

\* len(data[field]) > limit
TooLong(v, limit) == Len(v.s) > limit

\* the sanitizing loop: every text field before the first one that is not a
\* str has been replaced
SanitizeFields(data, fields) ==
    LET bad == {i \in 1..Len(fields) : data.f[fields[i]].t # "str"}
        stop == IF bad = {} THEN Len(fields) + 1 ELSE SetMin(bad)
        done == {fields[i] : i \in 1..(stop - 1)}
        out == [data EXCEPT !.f = [k \in FieldSet |->
                   IF k \in done THEN Str(Sanitize(data.f[k].s)) ELSE data.f[k]]]
    IN  IF bad = {} THEN Returned(TRUE, "Valid", out)
        ELSE Raised("TypeError", out)

\* the checks with the email syntax before the length limits
LengthChecksLast(data) ==
    LET title == data.f["book_title"]
        author == data.f["book_author"]
        name == data.f["borrower_name"]
        email == data.f["borrower_email"]
    IN  IF email.t # "str" THEN Raised("TypeError", data)
        ELSE IF ~EmailMatches(email.s)
        THEN Returned(FALSE, "Invalid borrower email format", data)
        ELSE IF ~HasLen(title) THEN Raised("TypeError", data)
        ELSE IF TooLong(title, MAX_TITLE_LENGTH)
        THEN Returned(FALSE, "Book title too long (max 255 characters)", data)
        ELSE IF ~HasLen(author) THEN Raised("TypeError", data)
        ELSE IF TooLong(author, MAX_AUTHOR_LENGTH)
        THEN Returned(FALSE, "Book author too long (max 100 characters)", data)
        ELSE IF ~HasLen(name) THEN Raised("TypeError", data)
        ELSE IF TooLong(name, MAX_NAME_LENGTH)
        THEN Returned(FALSE, "Borrower name too long (max 100 characters)", data)
        ELSE SanitizeFields(data, text_fields)

\* lines 130-147: length limits, email syntax, sanitization
ChecksAfterRequired(data) ==
    LET title == data.f["book_title"]
        author == data.f["book_author"]
        name == data.f["borrower_name"]
        email == data.f["borrower_email"]
    IN  IF ~HasLen(title) THEN Raised("TypeError", data)
        ELSE IF TooLong(title, MAX_TITLE_LENGTH)
        THEN Returned(FALSE, "Book title too long (max 255 characters)", data)
        ELSE IF ~HasLen(author) THEN Raised("TypeError", data)
        ELSE IF TooLong(author, MAX_AUTHOR_LENGTH)
        THEN Returned(FALSE, "Book author too long (max 100 characters)", data)
        ELSE IF ~HasLen(name) THEN Raised("TypeError", data)
        ELSE IF TooLong(name, MAX_NAME_LENGTH)
        THEN Returned(FALSE, "Borrower name too long (max 100 characters)", data)
        ELSE IF email.t # "str" THEN Raised("TypeError", data)
        ELSE IF ~EmailMatches(email.s)
        THEN Returned(FALSE, "Invalid borrower email format", data)
        ELSE SanitizeFields(data, text_fields)

validate_loan_request(data) ==
    IF data.t \in {"int", "null"} THEN Raised("TypeError", data)
    ELSE LET m == FirstMissing(data, required_fields)
         IN  IF m # 0
             THEN Returned(FALSE, MissingMessage(required_fields[m]), data)
             ELSE ChecksAfterRequired(data)

(***************************************************************************)
(* send_loan_notification and get_auth_token                               *)
(***************************************************************************)
\* an environment variable is "unset", "empty" ('') or "set" (non-empty)
EnvValues == {"unset", "empty", "set"}

RelayStatuses == {200, 400, 500}

\* what the reply of the relay holds: a JSON object with a string 'message',
\* with a 'message' that is not a string (null), without 'message', a JSON
\* value that is not an object, or text that is not JSON
RelayBodies == {"dict_msg_str", "dict_msg_null", "dict_no_msg", "json_non_dict", "not_json"}

\* requests.post raises (raises = TRUE) or returns a reply
RelayOutcomes ==
    [raises : {TRUE}, status : {0}, body : {"not_json"}]
      \cup [raises : {FALSE}, status : RelayStatuses, body : RelayBodies]

\* a NotificationResult / a JSON response body: {"success": .., key: text};
\* textIsStr is FALSE when the value under key is not a string
Result(success, key, text) ==
    [success |-> success, key |-> key, text |-> text, textIsStr |-> TRUE]

\* admin_email is not None: an empty ADMIN_EMAIL counts as configured
AdminNotNone(e) == e.ADMIN_EMAIL # "unset"

\* line 41: admin_email is truthy
AdminConfigured(e) == e.ADMIN_EMAIL = "set"

\* lines 27-35: the token, or "" when the function raises
get_auth_token(e) ==
    IF e.REPL_IDENTITY = "set" THEN "repl"
    ELSE IF e.WEB_REPL_RENEWAL = "set" THEN "depl"
    ELSE ""

NoTokenMessage == "No authentication token found. Ensure you're running in Replit environment."

ServiceError(status) ==
    CASE status = 400 -> "Email service error: 400"
      [] status = 500 -> "Email service error: 500"
      [] status = 200 -> "Email service error: 200"

ServiceErrorWithText(status) ==
    CASE status = 400 -> "Email service error: 400 - <response.text>"
      [] status = 500 -> "Email service error: 500 - <response.text>"
      [] status = 200 -> "Email service error: 200 - <response.text>"

\* line 105
RelaySucceeded(o) == o.status = 200

\* lines 96-119: the result for an outcome of requests.post
InterpretRelay(o) ==
    IF o.raises THEN Result(FALSE, "error", "ConnectionError")
    ELSE IF RelaySucceeded(o)
    THEN Result(TRUE, "message", "Notification sent successfully")
    ELSE CASE o.body = "dict_msg_str" -> Result(FALSE, "error", "<relay message>")
           [] o.body = "dict_msg_null" ->
                [Result(FALSE, "error", "null") EXCEPT !.textIsStr = FALSE]
           [] o.body = "dict_no_msg" -> Result(FALSE, "error", ServiceError(o.status))
           [] o.body = "json_non_dict" ->
                Result(FALSE, "error", ServiceErrorWithText(o.status))
           [] o.body = "not_json" ->
                Result(FALSE, "error", ServiceErrorWithText(o.status))

(***************************************************************************)
(* Requests and responses                                                  *)
(***************************************************************************)
\* the body of a request: the Content-Length header (hasCL, cl), whether the
\* bytes decode and parse ("ok", "badutf8", "badjson") and the parsed value
Body(hasCL, cl, parse, data) ==
    [hasCL |-> hasCL, cl |-> cl, parse |-> parse, data |-> data]

Request(client, method, path, body) ==
    [client |-> client, method |-> method, path |-> path, body |-> body]

NoBody == <<>>

Response(status, body) == [status |-> status, body |-> body]

JsonResponse(status, result) == Response(status, <<result>>)

NoResponse == Response(0, NoBody)

\* the status when the result of the dispatcher is ignored
DispatchStatusAlwaysOk(result) == 200

\* line 234
DispatchStatus(result) == IF result.success THEN 200 ELSE 500

(***************************************************************************)
(* MyHTTPRequestHandler.do_POST after check_rate_limit has returned        *)
(***************************************************************************)
\* what handling a request has done so far: the response sent (NoResponse
\* while none is), whether the body was read, the validator run and what it
\* left in the handler's data, the dispatcher called and with which fields
\* (args), whether the credentials were looked up and the relay called, what
\* requests.post did (outcome) and the dispatcher's result
Trace0 ==
    [resp |-> NoResponse, bodyRead |-> FALSE, validated |-> FALSE, data |-> <<>>,
     dispatched |-> FALSE, args |-> <<>>, authLookup |-> FALSE,
     relayCalled |-> FALSE, outcome |-> <<>>, result |-> <<>>]

ErrorBody(text) == Result(FALSE, "error", text)

\* lines 37-46 and 234-237: send_loan_notification up to requests.post; the
\* handler answers at once when the dispatcher returns without calling it
Dispatch(tr, data, e) ==
    LET called == [tr EXCEPT !.dispatched = TRUE, !.args = <<data.f>>]
    IN  IF ~AdminConfigured(e)
        THEN LET r == ErrorBody("Admin email not configured")
             IN  [called EXCEPT !.result = <<r>>,
                                !.resp = JsonResponse(DispatchStatus(r), r)]
        ELSE IF get_auth_token(e) = ""
        THEN LET r == ErrorBody(NoTokenMessage)
             IN  [called EXCEPT !.authLookup = TRUE, !.result = <<r>>,
                                !.resp = JsonResponse(DispatchStatus(r), r)]
        ELSE [called EXCEPT !.authLookup = TRUE, !.relayCalled = TRUE]

\* lines 199-232 and 239-250
ProcessAdmitted(req, e) ==
    LET b == req.body
        read == [Trace0 EXCEPT !.bodyRead = TRUE]
    IN  IF ~b.hasCL
        THEN [Trace0 EXCEPT !.resp = JsonResponse(500, ErrorBody("TypeError"))]
        ELSE IF b.cl > MAX_CONTENT_LENGTH
        THEN [Trace0 EXCEPT !.resp = JsonResponse(413, ErrorBody("Request too large"))]
        ELSE IF b.parse = "badutf8"
        THEN [read EXCEPT !.resp = JsonResponse(500, ErrorBody("UnicodeDecodeError"))]
        ELSE IF b.parse = "badjson"
        THEN [read EXCEPT !.resp = JsonResponse(400, ErrorBody("Invalid JSON"))]
        ELSE LET v == validate_loan_request(b.data)
                 run == [read EXCEPT !.validated = TRUE, !.data = <<v.data>>]
             IN  IF v.exc # ""
                 THEN [run EXCEPT !.resp = JsonResponse(500, ErrorBody(v.exc))]
                 ELSE IF ~v.ok
                 THEN [run EXCEPT !.resp = JsonResponse(400, ErrorBody(v.msg))]
                 ELSE Dispatch(run, v.data, e)

RateLimitedResponse ==
    JsonResponse(429, ErrorBody("Rate limit exceeded. Please try again later."))

\* do_POST with the size check ahead of the rate-limit gate
HandlePostSizeFirst(admitted, req, e) ==
    IF req.body.hasCL /\ req.body.cl > MAX_CONTENT_LENGTH
    THEN [Trace0 EXCEPT !.resp = JsonResponse(413, ErrorBody("Request too large"))]
    ELSE IF ~admitted THEN [Trace0 EXCEPT !.resp = RateLimitedResponse]
    ELSE ProcessAdmitted(req, e)

\* lines 191-232: the rate-limit gate, then the rest
HandlePost(admitted, req, e) ==
    IF ~admitted THEN [Trace0 EXCEPT !.resp = RateLimitedResponse]
    ELSE ProcessAdmitted(req, e)

(***************************************************************************)
(* check_rate_limit                                                        *)
(***************************************************************************)
\* a window of half the length
InWindowHalf(current_time, timestamp) ==
    2 * (current_time - timestamp) < RATE_LIMIT_WINDOW

\* line 156
InWindow(current_time, timestamp) ==
    current_time - timestamp < RATE_LIMIT_WINDOW

\* pruning that keeps every timestamp
PrunedNothing(list, current_time) == list

\* lines 154-157
Pruned(list, current_time) ==
    LET keep(timestamp) == InWindow(current_time, timestamp)
    IN  SelectSeq(list, keep)

\* the limit check with > in place of >=
OverLimitOffByOne(list) == Len(list) > RATE_LIMIT_MAX_REQUESTS

\* line 160
OverLimit(list) == Len(list) >= RATE_LIMIT_MAX_REQUESTS

\* a rejection that records the rejected request
RejectedButRecorded(list, current_time) == Append(list, current_time)

\* line 161: the list of a rejected request, returned from without recording
Rejected(list, current_time) == list

\* an admission that records nothing
RecordedNothing(list, current_time) == list

\* line 164: the list of an admitted request
Recorded(list, current_time) == Append(list, current_time)

(***************************************************************************)
(* The server: state and steps                                             *)
(*   clock               time.time()                                      *)
(*   rate_limit_tracker  client address -> admitted timestamps             *)
(*   env                 os.environ                                        *)
(*   backlog             clients whose connections wait to be accepted     *)
(*   pc, local           position and local variables of each activation   *)
(*                       of the request handler                            *)
(***************************************************************************)
NoRequest == Request("", "", "", Body(FALSE, 0, "ok", NonDict("null")))

IdleLocal ==
    [req |-> NoRequest, current_time |-> 0, pre |-> <<>>, admitted |-> FALSE,
     tr |-> Trace0]

Env(admin, identity, renewal) ==
    [ADMIN_EMAIL |-> admin, REPL_IDENTITY |-> identity, WEB_REPL_RENEWAL |-> renewal]

InitWith(Envs) ==
    /\ clock = 0
    /\ rate_limit_tracker = [c \in Clients |-> <<>>]
    /\ env \in Envs
    /\ backlog = <<>>
    /\ pc = [h \in Handlers |-> "idle"]
    /\ local = [h \in Handlers |-> IdleLocal]
    /\ admissions = [c \in Clients |-> <<>>]
    /\ relay_calls = 0

\* the last RATE_LIMIT_MAX_REQUESTS + 1 entries of log
LastAdmissions(log) ==
    IF Len(log) <= RATE_LIMIT_MAX_REQUESTS + 1 THEN log ELSE Tail(log)

\* a call that is made again after the first attempt
PostedWithRetry(n) == n + 2

\* lines 96-103: one call of requests.post
Posted(n) == n + 1

Free(h) == pc[h] \in {"idle", "done"}

\* one key for every client
shared_key(h) == CHOOSE c \in Clients : TRUE

\* line 190: the key of the request in rate_limit_tracker
client_ip(h) == local[h].req.client

\* a socketserver.ThreadingTCPServer accepts while handlers are running
ThreadingServerCanAccept == \E h \in Handlers : Free(h)

\* lines 256-259: socketserver.TCPServer.serve_forever handles a request to
\* its end before it accepts the next one
ServerCanAccept == \A h \in Handlers : Free(h)

\* time passes
Tick(d) ==
    /\ clock + d <= MaxClock
    /\ clock' = clock + d
    /\ UNCHANGED <<rate_limit_tracker, env, backlog, pc, local, admissions, relay_calls>>

\* a client opens a connection and sends a request
Connect(c) ==
    /\ Len(backlog) < MaxBacklog
    /\ backlog' = Append(backlog, c)
    /\ UNCHANGED <<clock, rate_limit_tracker, env, pc, local, admissions, relay_calls>>

\* the server takes a waiting connection and starts the handler on it
Accept(h, Contents) ==
    /\ ServerCanAccept
    /\ Free(h)
    /\ relay_calls < MaxRelayCalls
    /\ \A k \in Handlers : Free(k) => h <= k
    /\ backlog # <<>>
    /\ backlog' = Tail(backlog)
    /\ \E m \in Contents :
         local' = [local EXCEPT ![h] =
            [IdleLocal EXCEPT !.req = Request(Head(backlog), m.method, m.path, m.body)]]
    /\ pc' = [pc EXCEPT ![h] = "handle"]
    /\ UNCHANGED <<clock, rate_limit_tracker, env, admissions, relay_calls>>

\* lines 179-182
do_OPTIONS(h) ==
    /\ pc[h] = "handle"
    /\ local[h].req.method = "OPTIONS"
    /\ local' = [local EXCEPT ![h].tr.resp = Response(200, NoBody)]
    /\ pc' = [pc EXCEPT ![h] = "done"]
    /\ UNCHANGED <<clock, rate_limit_tracker, env, backlog, admissions, relay_calls>>

\* lines 251-254: POST to another path
do_POST_NotFound(h) ==
    /\ pc[h] = "handle"
    /\ local[h].req.method = "POST"
    /\ local[h].req.path # API_PATH
    /\ local' = [local EXCEPT ![h].tr.resp = Response(404, NoBody)]
    /\ pc' = [pc EXCEPT ![h] = "done"]
    /\ UNCHANGED <<clock, rate_limit_tracker, env, backlog, admissions, relay_calls>>

\* lines 186-191 and 151: POST to the API path calls check_rate_limit, which
\* reads the time
do_POST(h) ==
    /\ pc[h] = "handle"
    /\ local[h].req.method = "POST"
    /\ local[h].req.path = API_PATH
    /\ local' = [local EXCEPT ![h].current_time = clock,
                              ![h].pre = rate_limit_tracker[client_ip(h)]]
    /\ pc' = [pc EXCEPT ![h] = "prune"]
    /\ UNCHANGED <<clock, rate_limit_tracker, env, backlog, admissions, relay_calls>>

\* lines 154-157
RateLimitPrune(h) ==
    /\ pc[h] = "prune"
    /\ rate_limit_tracker' =
         [rate_limit_tracker EXCEPT ![client_ip(h)] =
            Pruned(@, local[h].current_time)]
    /\ pc' = [pc EXCEPT ![h] = "check"]
    /\ UNCHANGED <<clock, env, backlog, local, admissions, relay_calls>>

\* lines 160-161
RateLimitCheck(h) ==
    /\ pc[h] = "check"
    /\ IF OverLimit(rate_limit_tracker[client_ip(h)])
       THEN /\ rate_limit_tracker' =
                 [rate_limit_tracker EXCEPT ![client_ip(h)] =
                    Rejected(@, local[h].current_time)]
            /\ local' = [local EXCEPT ![h].admitted = FALSE]
            /\ pc' = [pc EXCEPT ![h] = "respond"]
       ELSE /\ pc' = [pc EXCEPT ![h] = "append"]
            /\ UNCHANGED <<rate_limit_tracker, local>>
    /\ UNCHANGED <<clock, env, backlog, admissions, relay_calls>>

\* lines 164-165
RateLimitAppend(h) ==
    /\ pc[h] = "append"
    /\ rate_limit_tracker' =
         [rate_limit_tracker EXCEPT ![client_ip(h)] =
            Recorded(@, local[h].current_time)]
    /\ local' = [local EXCEPT ![h].admitted = TRUE]
    /\ admissions' = [admissions EXCEPT ![local[h].req.client] =
                        LastAdmissions(Append(@, local[h].current_time))]
    /\ pc' = [pc EXCEPT ![h] = "respond"]
    /\ UNCHANGED <<clock, env, backlog, relay_calls>>

\* lines 191-232, 239-250: the rest of do_POST, up to the answer or to the
\* call of the mail relay
Respond(h) ==
    /\ pc[h] = "respond"
    /\ LET tr == HandlePost(local[h].admitted, local[h].req, env)
       IN  /\ local' = [local EXCEPT ![h].tr = tr]
           /\ relay_calls' = IF tr.relayCalled THEN Posted(relay_calls) ELSE relay_calls
           /\ pc' = [pc EXCEPT ![h] = IF tr.resp = NoResponse THEN "relay" ELSE "done"]
    /\ UNCHANGED <<clock, rate_limit_tracker, env, backlog, admissions>>

\* lines 96-119, 234-237: requests.post returns or raises, and the handler
\* answers with the dispatcher's result
RelayReply(h, Outcomes) ==
    /\ pc[h] = "relay"
    /\ \E o \in Outcomes :
         LET r == InterpretRelay(o)
         IN  local' = [local EXCEPT ![h].tr.outcome = <<o>>,
                                    ![h].tr.result = <<r>>,
                                    ![h].tr.resp = JsonResponse(DispatchStatus(r), r)]
    /\ pc' = [pc EXCEPT ![h] = "done"]
    /\ UNCHANGED <<clock, rate_limit_tracker, env, backlog, admissions, relay_calls>>

(***************************************************************************)
(* Inputs                                                                  *)
(***************************************************************************)
Dune == Str(<<"D", "u", "n", "e">>)

Herbert == Str(<<"H", "e", "r", "b", "e", "r", "t">>)

Ana == Str(<<"A", "n", "a">>)

AnaEmail == Str(<<"a", "n", "a", "@", "e", "x", "a", "m", "p", "l", "e", ".", "c", "o", "m">>)

ValidData == Dict(Dune, Herbert, Ana, AnaEmail)

SmallBody(data) == Body(TRUE, 120, "ok", data)

Post(body) == [method |-> "POST", path |-> API_PATH, body |-> body]

\* titles: plain, at and over the limit, over the limit only before
\* sanitization, with every removed character, vanishing under sanitization,
\* between a vertical tab and a no-break space, absent and not a string
Titles ==
    {Dune, Str(Rep("a", 255)), Str(Rep("a", 256)),
     Str(<<"<">> \o Rep("a", 255)),
     Str(<<" ", "<", "b", ">", "O", "'", "N", "e", "i", "l", " ", "\"", "x", "\"", " ">>), Str(<<"<", ">">>),
     Str(<<"U+000B", "D", "u", "n", "e", "U+00A0">>),
     Absent, List(<<"a">>)}

Authors ==
    {Herbert, Str(Rep("b", 101)), Str(<<>>)}

Names ==
    {Str(Rep("c", 101)), Str(<<"\t", "A", "n", "a", " ", "\n">>), Null}

Emails ==
    {AnaEmail, Str(<<"n", "o", "t", "-", "a", "n", "-", "e", "m", "a", "i", "l">>), Str(<<"a", "@", "b", ".", "c", "o", "\n">>), Absent}

ValidationData ==
    {Dict(t, a, n, e) : t \in Titles, a \in Authors, n \in Names, e \in Emails}
      \cup {NonDict("list"), NonDict("int"), NonDict("null")}

\* requests for the validator: every combination of the field values
ValidationContents == {Post(SmallBody(d)) : d \in ValidationData}

Options == [method |-> "OPTIONS", path |-> API_PATH, body |-> SmallBody(ValidData)]

PostOther == [method |-> "POST", path |-> "/other", body |-> SmallBody(ValidData)]

Oversized == Body(TRUE, 10001, "ok", ValidData)

Malformed == Body(TRUE, 50, "badjson", NonDict("null"))

MissingEmail == SmallBody(Dict(Dune, Herbert, Ana, Absent))

\* requests for the server under a passing clock: a valid body, an oversized
\* one, a malformed one, one failing validation; OPTIONS; another path
ServerContents ==
    {Post(SmallBody(ValidData)), Post(Oversized), Post(Malformed),
     Post(MissingEmail), Options, PostOther}

\* requests for the whole pipeline: also a body at the size limit, one
\* without Content-Length, an undecodable one, one that needs sanitizing,
\* a JSON number and a title that is a number
PipelineContents ==
    ServerContents \cup
    {Post(Body(TRUE, 10000, "ok", ValidData)),
     Post(Body(FALSE, 0, "ok", ValidData)),
     Post(Body(TRUE, 50, "badutf8", NonDict("null"))),
     Post(SmallBody(Dict(Str(<<"<", "i", ">", "D", "u", "n", "e", "<", "/", "i", ">">>), Herbert, Ana, AnaEmail))),
     Post(SmallBody(Dict(Num(7), Herbert, Ana, AnaEmail))),
     Post(SmallBody(NonDict("int")))}

AllEnvs == {Env(a, i, r) : a \in EnvValues, i \in EnvValues, r \in EnvValues}

ServerEnvs == {Env("set", "set", "unset")}

ServerOutcomes ==
    {o \in RelayOutcomes : ~o.raises /\ o.status \in {200, 500} /\ o.body = "dict_no_msg"}

(***************************************************************************)
(* Specifications                                                          *)
(***************************************************************************)
\* the steps of check_rate_limit and of the rest of do_POST
HandlePostSteps(h, Outcomes) ==
    \/ do_POST(h)
    \/ RateLimitPrune(h)
    \/ RateLimitCheck(h)
    \/ RateLimitAppend(h)
    \/ Respond(h)
    \/ RelayReply(h, Outcomes)

\* the server under a passing clock
Init == InitWith(ServerEnvs)

Next ==
    \/ \E d \in TickSteps : Tick(d)
    \/ \E c \in Clients : Connect(c)
    \/ \E h \in Handlers : Accept(h, ServerContents)
    \/ \E h \in Handlers : do_OPTIONS(h)
    \/ \E h \in Handlers : do_POST_NotFound(h)
    \/ \E h \in Handlers : HandlePostSteps(h, ServerOutcomes)

Spec == Init /\ [][Next]_vars

\* the validator on every combination of field values, for one client at a
\* fixed time
ValidateInit == InitWith(ServerEnvs)

ValidateNext ==
    \/ Connect(CHOOSE c \in Clients : TRUE)
    \/ \E h \in Handlers : Accept(h, ValidationContents)
    \/ \E h \in Handlers : HandlePostSteps(h, ServerOutcomes)

ValidateSpec == ValidateInit /\ [][ValidateNext]_vars

\* the handler and the dispatcher under every configuration and every reply
\* of the relay, at a fixed time
NotifyInit == InitWith(AllEnvs)

NotifyNext ==
    \/ \E c \in Clients : Connect(c)
    \/ \E h \in Handlers : Accept(h, PipelineContents)
    \/ \E h \in Handlers : do_OPTIONS(h)
    \/ \E h \in Handlers : do_POST_NotFound(h)
    \/ \E h \in Handlers : HandlePostSteps(h, RelayOutcomes)

NotifySpec == NotifyInit /\ [][NotifyNext]_vars

\* the POSTs to the API path among the requests of the server
RelayContents ==
    {m \in ServerContents : m.method = "POST" /\ m.path = API_PATH}

\* the server with a relay that is free never to reply: serve_forever takes
\* every waiting connection and the handler runs every step of its own, but
\* nothing makes requests.post return
RelayInit == InitWith(ServerEnvs)

RelayNext ==
    \/ \E c \in Clients : Connect(c)
    \/ \E h \in Handlers : Accept(h, RelayContents)
    \/ \E h \in Handlers : HandlePostSteps(h, ServerOutcomes)

ServerFairness ==
    \A h \in Handlers :
        /\ WF_vars(Accept(h, RelayContents))
        /\ WF_vars(do_POST(h))
        /\ WF_vars(RateLimitPrune(h))
        /\ WF_vars(RateLimitCheck(h))
        /\ WF_vars(RateLimitAppend(h))
        /\ WF_vars(Respond(h))

RelaySpec == RelayInit /\ [][RelayNext]_vars /\ ServerFairness

TypeOK ==
    /\ clock \in 0..MaxClock
    /\ Len(backlog) <= MaxBacklog
    /\ \A h \in Handlers :
         pc[h] \in {"idle", "handle", "prune", "check", "append", "respond", "relay", "done"}
    /\ relay_calls \in 0..MaxRelayCalls
    /\ \A c \in Clients : Len(admissions[c]) <= RATE_LIMIT_MAX_REQUESTS + 1

(***************************************************************************)
(* Properties                                                              *)
(***************************************************************************)
IsApiPost(h) ==
    /\ local[h].req.method = "POST"
    /\ local[h].req.path = API_PATH

\* check_rate_limit has returned for the request of h
PastGate(h) == IsApiPost(h) /\ pc[h] \in {"respond", "relay", "done"}

Answered(h) == pc[h] = "done"

Status(h) == local[h].tr.resp.status

\* the text under "error" or "message" of the response body
BodyText(h) == local[h].tr.resp.body[1].text

\* C1: when the three timestamps stored for a client are those of three
\* admitted requests, a request of that client arriving less than 300 s
\* after the first of them is rejected and answered 429, and one arriving
\* 301 s after the first is admitted.
C1_FourthRejectedAdmittedAt301 ==
    \A h \in Handlers :
        (PastGate(h) /\ Len(local[h].pre) = 3) =>
            LET age == local[h].current_time - local[h].pre[1]
            IN  /\ age < 300 =>
                    /\ ~local[h].admitted
                    /\ Answered(h) => Status(h) = 429
                /\ age = 301 =>
                    /\ local[h].admitted
                    /\ Answered(h) => Status(h) # 429

\* three requests were admitted at time 0 and one arriving at 301 is admitted
C1_Witness ==
    \E h \in Handlers :
        /\ PastGate(h) /\ Answered(h)
        /\ Len(local[h].pre) = 3
        /\ local[h].current_time - local[h].pre[1] = 301
        /\ local[h].admitted
        /\ Status(h) # 429

InRateLimit(h) == pc[h] \in {"prune", "check", "append"}

\* C2: no two requests of one client are inside the prune, check and append
\* sequence at once, and the timestamps stored for a client never hold more
\* than MAX_REQUESTS within one window.
C2_RateLimitAtomicPerClient ==
    /\ \A h1, h2 \in Handlers :
          (h1 # h2 /\ InRateLimit(h1) /\ InRateLimit(h2))
              => local[h1].req.client # local[h2].req.client
    /\ \A c \in Clients :
          LET list == rate_limit_tracker[c]
          IN  \A i \in 1..Len(list) :
                Cardinality({j \in 1..Len(list) :
                    list[j] >= list[i] /\ list[j] - list[i] < 300}) <= 3

\* a request is about to take the last slot of its client while another
\* connection of the same client waits
C2_Witness ==
    \E h \in Handlers :
        /\ pc[h] = "append"
        /\ Len(rate_limit_tracker[local[h].req.client]) = 2
        /\ \E i \in 1..Len(backlog) : backlog[i] = local[h].req.client

\* C3: a request that the rate limiter rejects is answered 429 whatever its
\* body is; its body is not read, the validator is not run, and neither the
\* dispatcher nor the mail relay is called.
C3_RateLimitGateFirst ==
    \A h \in Handlers :
        (PastGate(h) /\ pc[h] # "respond" /\ ~local[h].admitted) =>
            /\ Answered(h)
            /\ Status(h) = 429
            /\ ~local[h].tr.bodyRead
            /\ ~local[h].tr.validated
            /\ ~local[h].tr.dispatched
            /\ ~local[h].tr.relayCalled

\* a rejected request with a valid body has been answered 429
C3_Witness ==
    \E h \in Handlers :
        /\ PastGate(h) /\ Answered(h)
        /\ ~local[h].admitted
        /\ local[h].req.body = SmallBody(ValidData)
        /\ Status(h) = 429
        /\ ~local[h].tr.relayCalled

\* the status the handler gives when every failing step is one of the five
\* gates: exceptions of the steps are not told apart from the gates
GateStatus(h) ==
    LET b == local[h].req.body
        v == validate_loan_request(b.data)
    IN  IF ~local[h].admitted THEN 429
        ELSE IF b.hasCL /\ b.cl > 10000 THEN 413
        ELSE IF b.parse # "ok" THEN 400
        ELSE IF v.exc # "" \/ ~v.ok THEN 400
        ELSE IF local[h].tr.result # <<>> /\ local[h].tr.result[1].success THEN 200
        ELSE 500

\* C4 as stated: the status of every answered POST to the API path is the
\* one of the first failing gate in the order rate limit (429), size (413),
\* JSON parse (400), validation (400), dispatch (500), and 200 otherwise.
C4_StatusByFirstFailingGate ==
    \A h \in Handlers :
        (IsApiPost(h) /\ Answered(h)) => Status(h) = GateStatus(h)

\* the step of an admitted request that raises an exception other than a
\* JSON parse error, if any: the Content-Length header is missing, the body
\* is not UTF-8, or the validator raises
StepRaises(h) ==
    LET b == local[h].req.body
    IN  /\ local[h].admitted
        /\ \/ ~b.hasCL
           \/ b.cl <= 10000 /\ b.parse = "badutf8"
           \/ b.cl <= 10000 /\ b.parse = "ok" /\ validate_loan_request(b.data).exc # ""

\* C4 amended: as C4, except that a request one of whose steps raises an
\* exception other than a JSON parse error is answered 500; the status is
\* 200 exactly when every gate passed and the dispatcher returned
\* success=true, and after the dispatch step the body is its result.
C4_StatusByFirstFailingStep ==
    \A h \in Handlers :
        (IsApiPost(h) /\ Answered(h)) =>
            LET tr == local[h].tr
            IN  /\ tr.resp # NoResponse
                /\ Status(h) = IF StepRaises(h) THEN 500 ELSE GateStatus(h)
                /\ StepRaises(h) => tr.resp.body[1].success = FALSE /\ ~tr.dispatched
                /\ Status(h) = 200 <=>
                     /\ local[h].admitted /\ tr.bodyRead /\ tr.validated /\ tr.dispatched
                     /\ tr.result # <<>> /\ tr.result[1].success
                /\ tr.dispatched => tr.resp.body = tr.result
                /\ (Status(h) = 400 /\ ~tr.validated) => BodyText(h) = "Invalid JSON"

\* an admitted request whose title is a number has been answered 500 without
\* reaching the dispatcher
C4_Witness ==
    \E h \in Handlers :
        /\ IsApiPost(h) /\ Answered(h)
        /\ local[h].admitted
        /\ local[h].req.body.data.f["book_title"].t = "int"
        /\ local[h].tr.validated
        /\ ~local[h].tr.dispatched
        /\ Status(h) = 500

\* the dispatcher has been called for the request of h
Dispatched(h) == pc[h] \in {"relay", "done"} /\ local[h].tr.dispatched

\* C5: the three text fields handed to the dispatcher contain none of the
\* characters < > " ' and neither start nor end with whitespace.
C5_DispatchedTextIsSanitized ==
    \A h \in Handlers :
        Dispatched(h) =>
            \A k \in {"book_title", "book_author", "borrower_name"} :
                LET s == local[h].tr.args[1][k].s
                IN  /\ \A i \in 1..Len(s) : s[i] \notin {"<", ">", "\"", "'"}
                    /\ s # <<>> => (s[1] \notin Whitespace /\ s[Len(s)] \notin Whitespace)

\* the dispatcher got a title and a borrower name that sanitization changed
C5_Witness ==
    \E h \in Handlers :
        /\ Dispatched(h)
        /\ \E i \in 1..Len(local[h].req.body.data.f["book_title"].s) :
              local[h].req.body.data.f["book_title"].s[i] \in {"<", ">", "\"", "'"}
        /\ local[h].req.body.data.f["borrower_name"].s[1] \in Whitespace
        /\ local[h].tr.args[1]["book_title"] # local[h].req.body.data.f["book_title"]
        /\ local[h].tr.args[1]["borrower_name"] # local[h].req.body.data.f["borrower_name"]

\* a JSON object each of whose fields is absent, null or a string
StringFields(d) ==
    /\ d.t = "dict"
    /\ \A k \in DOMAIN d.f : d.f[k].t \in {"absent", "null", "str"}

Empty(v) == v.t \in {"absent", "null"} \/ v.s = <<>>

\* the message of the earliest failing check, "" when no check fails
EarliestError(d) ==
    IF Empty(d.f["book_title"]) THEN "Missing required field: book_title"
    ELSE IF Empty(d.f["book_author"]) THEN "Missing required field: book_author"
    ELSE IF Empty(d.f["borrower_name"]) THEN "Missing required field: borrower_name"
    ELSE IF Empty(d.f["borrower_email"]) THEN "Missing required field: borrower_email"
    ELSE IF Len(d.f["book_title"].s) > 255 THEN "Book title too long (max 255 characters)"
    ELSE IF Len(d.f["book_author"].s) > 100 THEN "Book author too long (max 100 characters)"
    ELSE IF Len(d.f["borrower_name"].s) > 100
    THEN "Borrower name too long (max 100 characters)"
    ELSE IF ~EmailMatches(d.f["borrower_email"].s) THEN "Invalid borrower email format"
    ELSE ""

\* C6: for a JSON object with string fields that fails a check, the answer
\* is 400 with the message of the earliest failing check in the order:
\* missing or empty book_title, book_author, borrower_name, borrower_email,
\* then title length, author length, borrower name length, email syntax.
C6_EarliestCheckReported ==
    \A h \in Handlers :
        LET d == local[h].req.body.data
        IN  (pc[h] \in {"relay", "done"} /\ local[h].tr.validated
                 /\ StringFields(d) /\ EarliestError(d) # "") =>
                /\ Answered(h)
                /\ Status(h) = 400
                /\ BodyText(h) = EarliestError(d)

\* a request whose title and author are too long and whose email is invalid
\* has been answered with the title message
C6_Witness ==
    \E h \in Handlers :
        LET d == local[h].req.body.data
        IN  /\ Answered(h) /\ local[h].tr.validated
            /\ StringFields(d)
            /\ ~Empty(d.f["borrower_name"]) /\ ~Empty(d.f["borrower_email"])
            /\ Len(d.f["book_title"].s) > 255
            /\ Len(d.f["book_author"].s) > 100
            /\ ~EmailMatches(d.f["borrower_email"].s)
            /\ BodyText(h) = "Book title too long (max 255 characters)"

\* C7: for a JSON object with string fields none of which is empty, a title
\* of 255 characters passes validation when the other fields do, a title of
\* 256 characters is answered with the title-length message whatever
\* sanitization would remove from it, and when validation fails the
\* handler's data is the parsed body unchanged.
C7_LengthBeforeSanitization ==
    \A h \in Handlers :
        LET d == local[h].req.body.data
            title == d.f["book_title"].s
        IN  (pc[h] \in {"relay", "done"} /\ local[h].tr.validated /\ StringFields(d)) =>
                /\ (Len(title) = 255 /\ EarliestError(d) = "") => local[h].tr.dispatched
                /\ (Len(title) = 256 /\ \A k \in DOMAIN d.f : ~Empty(d.f[k])) =>
                      /\ Status(h) = 400
                      /\ BodyText(h) = "Book title too long (max 255 characters)"
                /\ Status(h) = 400 => local[h].tr.data = <<d>>

\* a title of 256 characters that sanitization would shorten to 255 has been
\* answered with the title-length message
C7_Witness ==
    \E h \in Handlers :
        LET d == local[h].req.body.data
        IN  /\ Answered(h) /\ local[h].tr.validated /\ StringFields(d)
            /\ Len(d.f["book_title"].s) = 256
            /\ Len(Strip(RemoveUnsafe(d.f["book_title"].s))) = 255
            /\ BodyText(h) = "Book title too long (max 255 characters)"
            /\ local[h].tr.data = <<d>>

\* C8 as stated: every response of the handlers carries a JSON body with a
\* boolean success flag.
C8_EveryResponseHasSuccessFlag ==
    \A h \in Handlers :
        Answered(h) =>
            /\ local[h].tr.resp.body # NoBody
            /\ local[h].tr.resp.body[1].success \in BOOLEAN

\* C9: when ADMIN_EMAIL is unset or empty, the dispatcher returns
\* success=false with "Admin email not configured" without looking up the
\* credentials or calling the relay, and the request is answered 500.
C9_NoAdminNoRelay ==
    \A h \in Handlers :
        (Dispatched(h) /\ env.ADMIN_EMAIL \in {"unset", "empty"}) =>
            /\ Answered(h)
            /\ local[h].tr.result = <<ErrorBody("Admin email not configured")>>
            /\ ~local[h].tr.authLookup
            /\ ~local[h].tr.relayCalled
            /\ local[h].tr.outcome = <<>>
            /\ Status(h) = 500

\* a valid request has been answered 500 because ADMIN_EMAIL is unset
C9_Witness ==
    \E h \in Handlers :
        /\ Dispatched(h) /\ Answered(h)
        /\ env.ADMIN_EMAIL = "unset"
        /\ Status(h) = 500
        /\ BodyText(h) = "Admin email not configured"

\* C10 as stated: whatever the configuration and the relay do, the
\* dispatcher returns a record with success=false and an error string, and
\* success=true only after a reply of status 200.
C10_NotifyReturnsErrorString ==
    \A h \in Handlers :
        (Dispatched(h) /\ Answered(h)) =>
            LET r == local[h].tr.result[1]
            IN  /\ local[h].tr.result # <<>>
                /\ ~r.success => (r.key = "error" /\ r.textIsStr)
                /\ r.success =>
                      /\ local[h].tr.outcome # <<>>
                      /\ ~local[h].tr.outcome[1].raises
                      /\ local[h].tr.outcome[1].status = 200

\* the timestamps of list that are less than 300 s old at time now
Younger(list, now) ==
    LET young(ts) == now - ts < 300 IN SelectSeq(list, young)

\* C13 as stated: in every state every stored timestamp of every client lies
\* within [now - WINDOW, now].
C13_StoredAlwaysInWindow ==
    \A c \in Clients :
        \A i \in 1..Len(rate_limit_tracker[c]) :
            /\ clock - 300 <= rate_limit_tracker[c][i]
            /\ rate_limit_tracker[c][i] <= clock

\* C13 amended: from the pruning step of a check until its request is
\* handled, every timestamp stored for the client of the check, the one the
\* check appends included, lies within [now - WINDOW, now], now being the
\* time the check read; older timestamps stay stored until then.
C13_StoredInWindowAfterPrune ==
    \A h \in Handlers :
        (IsApiPost(h) /\ pc[h] \in {"check", "append", "respond"}) =>
            LET list == rate_limit_tracker[local[h].req.client]
            IN  \A i \in 1..Len(list) :
                    /\ local[h].current_time - 300 <= list[i]
                    /\ list[i] <= local[h].current_time

\* a check has just pruned a timestamp that had stayed stored past its window
C13_Witness ==
    \E h \in Handlers :
        /\ IsApiPost(h) /\ pc[h] = "check"
        /\ \E i \in 1..Len(local[h].pre) :
              local[h].current_time - local[h].pre[i] > 300
        /\ Len(rate_limit_tracker[local[h].req.client]) < Len(local[h].pre)

\* C14 as stated: the pruning step discards exactly the timestamps more than
\* 300 s old; one that is exactly 300 s old is retained.
C14_PruneKeepsAgeExactly300 ==
    \A h \in Handlers :
        (IsApiPost(h) /\ pc[h] = "check") =>
            LET old(ts) == local[h].current_time - ts <= 300
            IN  rate_limit_tracker[local[h].req.client] = SelectSeq(local[h].pre, old)

\* C15: after a rejection the sequence stored for the client is the one
\* found at the call less the pruned timestamps: nothing is recorded for the
\* rejected request.
C15_RejectionRecordsNothing ==
    \A h \in Handlers :
        (PastGate(h) /\ ~local[h].admitted) =>
            rate_limit_tracker[local[h].req.client]
                = Younger(local[h].pre, local[h].current_time)

\* a request has been rejected and the three stored timestamps are unchanged
C15_Witness ==
    \E h \in Handlers :
        /\ PastGate(h) /\ Answered(h)
        /\ ~local[h].admitted
        /\ Status(h) = 429
        /\ Len(local[h].pre) = 3
        /\ rate_limit_tracker[local[h].req.client] = local[h].pre

\* C17: a request that passes the rate gate has its timestamp stored
\* whatever it is answered (413, 400, 500 or 200), and a request, valid or
\* not, that finds three stored timestamps less than 300 s old is answered
\* 429.
C17_AdmittedConsumesSlot ==
    \A h \in Handlers :
        PastGate(h) =>
            LET young == Younger(local[h].pre, local[h].current_time)
            IN  /\ local[h].admitted =>
                    rate_limit_tracker[local[h].req.client]
                        = Append(young, local[h].current_time)
                /\ (Len(young) = 3 /\ Answered(h)) => Status(h) = 429

\* an oversized request answered 413 has taken the third slot of its client
C17_Witness ==
    \E h \in Handlers :
        /\ PastGate(h) /\ Answered(h)
        /\ local[h].admitted
        /\ Status(h) = 413
        /\ Len(rate_limit_tracker[local[h].req.client]) = 3
        /\ rate_limit_tracker[local[h].req.client][3] = local[h].current_time

\* the handler h takes a step of check_rate_limit
RateLimitStep(h) == InRateLimit(h) /\ pc'[h] # pc[h]

\* C18: the sequence stored for a client changes only in a step of
\* check_rate_limit for a request of that client, and a request is admitted
\* exactly when fewer than three of the timestamps stored for its own client
\* are less than 300 s old.
C18_ClientsIsolated ==
    /\ [][\A c \in Clients :
            rate_limit_tracker'[c] # rate_limit_tracker[c] =>
                \E h \in Handlers : local[h].req.client = c /\ RateLimitStep(h)]_vars
    /\ [](\A h \in Handlers :
            PastGate(h) =>
                (local[h].admitted <=>
                    Len(Younger(local[h].pre, local[h].current_time)) < 3))

\* a request of one client is admitted while another client has used up its
\* three requests
C18_Witness ==
    \E h \in Handlers : \E c \in Clients :
        /\ PastGate(h) /\ local[h].admitted
        /\ c # local[h].req.client
        /\ Len(Younger(rate_limit_tracker[c], local[h].current_time)) = 3
        /\ Len(local[h].pre) = 0

\* C19 as stated: each of the four fields the dispatcher receives is
\* non-empty.
C19_DispatchedFieldsNonEmpty ==
    \A h \in Handlers :
        Dispatched(h) =>
            \A k \in {"book_title", "book_author", "borrower_name", "borrower_email"} :
                local[h].tr.args[1][k].s # <<>>

\* C20: the sequence stored for a client never holds more than three
\* timestamps, and they are in non-decreasing order.
C20_StoredShortAndSorted ==
    \A c \in Clients :
        LET list == rate_limit_tracker[c]
        IN  /\ Len(list) <= 3
            /\ \A i, j \in 1..Len(list) : i < j => list[i] <= list[j]

\* a client has three stored timestamps, the last taken later than the first
C20_Witness ==
    \E c \in Clients :
        /\ Len(rate_limit_tracker[c]) = 3
        /\ rate_limit_tracker[c][1] < rate_limit_tracker[c][3]

\* C16: for every client, an interval shorter than 300 s that starts at one
\* of its admissions holds at most three of its admissions.
C16_SlidingWindowSafety ==
    \A c \in Clients :
        LET log == admissions[c]
        IN  \A i \in 1..Len(log) :
                Cardinality({j \in 1..Len(log) :
                    /\ log[i] <= log[j]
                    /\ log[j] - log[i] < 300}) <= 3

\* a client was admitted four times, the last three within one window and
\* the first outside it
C16_Witness ==
    \E c \in Clients :
        /\ Len(admissions[c]) = 4
        /\ admissions[c][4] - admissions[c][2] < 300
        /\ admissions[c][1] < admissions[c][2]

\* the request of h passes every gate and the dispatcher finds the
\* administrator's address and a token
ReachesRelay(h) ==
    LET b == local[h].req.body
        v == validate_loan_request(b.data)
    IN  /\ IsApiPost(h) /\ local[h].admitted
        /\ b.hasCL /\ b.cl <= 10000 /\ b.parse = "ok"
        /\ v.exc = "" /\ v.ok
        /\ env.ADMIN_EMAIL = "set"
        /\ (env.REPL_IDENTITY = "set" \/ env.WEB_REPL_RENEWAL = "set")

\* the handlers that leave the step in which the rest of do_POST runs
Responding == {h \in Handlers : pc[h] = "respond" /\ pc'[h] # "respond"}

\* C12: the number of relay calls grows by one exactly when a request that
\* passes every gate with address and token configured is processed, and in
\* no other step: one call for such a request, none for another, none made
\* again when the relay has replied.
C12_OneRelayCallPerRequest ==
    [][relay_calls' = relay_calls
          + Cardinality({h \in Responding : ReachesRelay(h)})]_vars

\* two admitted requests of one client were answered 200 after two relay
\* calls
C12_Witness ==
    \E h \in Handlers :
        /\ Answered(h) /\ Status(h) = 200
        /\ ReachesRelay(h)
        /\ relay_calls = 2
        /\ Len(admissions[local[h].req.client]) = 2
        /\ \A c \in Clients : c # local[h].req.client => admissions[c] = <<>>

\* C11 as stated: a request whose relay call was made is eventually
\* answered, whether or not the relay replies.
C11_RelayCallEventuallyAnswered ==
    \A h \in Handlers : (pc[h] = "relay") ~> (pc[h] = "done")

====
